---- MODULE Spec2Model ----
(***************************************************************************)
(* Depthcharge companion firmware: the host-link framing state machine    *)
(* (Communicator), the fault latch (Panic), the I2C peripheral emulation  *)
(* (I2CPeriph) and the main loop / command dispatch (Companion).          *)
(***************************************************************************)
EXTENDS Integers, Sequences, FiniteSets, TLC

(***************************************************************************)
(* Program constants                                                       *)
(***************************************************************************)
MAX_DATA_SIZE == 64
HEADER_SIZE == 2
BUFFER_SIZE == 32
ByteMod == 256

SourceCommunicator == 1
SourceI2CPeriph == 2

(* __LINE__ of each SET_PANIC_REASON() *)
LineHeaderShort == 39
LineLenTooBig == 50
LineDataShort == 66
LineBadState == 92
LineDoubleAttach == 22
LineNegCount == 132
LineOverflow == 146

(***************************************************************************)
(* Bounds of the model                                                     *)
(***************************************************************************)
(* frames written to the link and not yet returned by hasRequest *)
MaxInFlight == 2
(* the link delivers a frame's bytes in pieces: it may stop after each of the
   first HEADER_SIZE + 1 bytes, before the last byte, and after every
   ChunkStride-th byte *)
ChunkStride == 40
(* hasRequest calls that take a fully arrived frame from IDLE back to IDLE *)
PollsPerFrame == 4

(***************************************************************************)
(* Input sets                                                              *)
(***************************************************************************)
Min(a, b) == IF a < b THEN a ELSE b
Max(a, b) == IF a > b THEN a ELSE b

Zeros(n) == [i \in 1..n |-> 0]

(* a payload pattern without zero bytes: byte i (1-based) of pattern pat *)
PatByte(pat, i) == ((pat + i - 1) % 255) + 1
PatSeq(pat, n) == [i \in 1..n |-> PatByte(pat, i)]

(* struct msg with all MAX_DATA_SIZE data bytes filled by the pattern *)
MkMsg(cmd, len, pat) == [cmd |-> cmd, len |-> len, data |-> PatSeq(pat, MAX_DATA_SIZE)]

ZeroMsg == [cmd |-> 0, len |-> 0, data |-> Zeros(MAX_DATA_SIZE)]

(* responses handed to sendResponse by a caller of the Communicator *)
SendLens == {0, 3, 64, 65}
SendMsgs == {MkMsg(17, l, 16) : l \in SendLens}

(* frames of its own making a host may put on the link (nothing validates the
   header before hasRequest sees it); it writes the header and the first
   RawBody bytes of the payload *)
RawLens == {65, 255}
RawMsgs == {MkMsg(9, l, 128) : l \in RawLens}
RawBody == 3
RawBytes(m) == <<m.cmd, m.len>> \o SubSeq(m.data, 1, RawBody)

(* how many bytes a readBytes call falls short of what it was asked for *)
Shortfalls == {0, 1}

VARIABLES
    m_state,        \* Communicator::m_state
    m_hostPort,     \* Communicator::m_hostPort (0 = NULL)
    m_req,          \* Communicator::m_req
    m_data_rcvd,    \* Communicator::m_data_rcvd
    wire,           \* pieces of bytes written towards the device, not yet in the Stream
    rx,             \* bytes the Stream reports as available()
    tx,             \* bytes written to the Stream by sendResponse
    msg,            \* the caller's msg object (Companion::processEvents' static msg)
    ret,            \* return value of the last hasRequest call
    inflight,       \* history: frames put on the link and not yet returned, oldest first
    m_reason,       \* Panic::m_reason
    panicLog,       \* history: value of the first setReason call (0 = none yet)
    m_i2c,          \* I2CPeriph::m_i2c (0 = NULL)
    m_addr,         \* I2CPeriph::m_addr
    m_speed,        \* I2CPeriph::m_speed
    m_subaddr_len,  \* I2CPeriph::m_subaddr_len
    m_rbuf,         \* I2CPeriph::m_rbuf
    m_rcount,       \* I2CPeriph::m_rcount
    m_wbuf,         \* I2CPeriph::m_wbuf
    m_wcount,       \* I2CPeriph::m_wcount
    twi,            \* the TwoWire bus controller: address begun, clock, callbacks
    busLog,         \* TwoWire calls made by the current or last main-context call
    busIn,          \* history: the last bus write handed to _handle_write
    busOut,         \* bytes last put on the bus by _handle_read
    m_caps,         \* Companion::m_caps
    intsOn,         \* interrupts enabled (noInterrupts() / interrupts())
    pc,             \* where the main context is
    loc             \* locals of the main-context call in progress

commVars == <<m_state, m_hostPort, m_req, m_data_rcvd>>
linkVars == <<wire, rx, tx>>
cfgVars == <<m_i2c, m_addr, m_speed, m_subaddr_len>>
bufVars == <<m_rbuf, m_rcount, m_wbuf, m_wcount>>
busVars == <<twi, busLog, busIn, busOut>>
i2cVars == <<cfgVars, bufVars, busVars>>
mainVars == <<m_caps, intsOn, pc, loc>>
vars == <<m_state, m_hostPort, m_req, m_data_rcvd, wire, rx, tx, msg, ret,
          inflight, m_reason, panicLog, m_i2c, m_addr, m_speed, m_subaddr_len,
          m_rbuf, m_rcount, m_wbuf, m_wcount, twi, busLog, busIn, busOut,
          m_caps, intsOn, pc, loc>>

(***************************************************************************)
(* Panic                                                                   *)
(***************************************************************************)
ReasonValue(source, lineno) == ((source % 256) * 65536) + lineno

(* a test that lets every call write the latch *)
reasonUnset_always(reason) == TRUE

(* the test m_reason == 0 of Panic::setReason *)
reasonUnset(reason) == reason = 0

(* Panic::setReason run without interruption, as a function of the latch *)
setReason(reason, source, lineno) ==
    IF reasonUnset(reason) THEN ReasonValue(source, lineno) ELSE reason

(* a test that never finds the latch set *)
active_never(reason) == FALSE

(* Panic::active *)
active(reason) == reason # 0

(***************************************************************************)
(* Stream (Arduino), the host port                                         *)
(***************************************************************************)
(* Stream::readBytes(buf, want): the number of bytes transferred when the
   link loses `short` of them *)
readCount(buf, want, short) == Max(0, Min(want, Len(buf)) - short)

Take(s, n) == SubSeq(s, 1, n)
Drop(s, n) == SubSeq(s, n + 1, Len(s))

(* overwrite dst[at+1 .. at+Len(src)] (0-based offset at) *)
Overlay(dst, at, src) ==
    [i \in 1..Len(dst) |->
        IF i > at /\ i <= at + Len(src) THEN src[i - at] ELSE dst[i]]

(* the places where the link may stop within n bytes written at once *)
CutSet(n) ==
    {p \in 1..n : p <= HEADER_SIZE + 1 \/ p >= n - 1 \/ p % ChunkStride = 0}
NextCut(n, from) ==
    CHOOSE q \in CutSet(n) : q > from /\ \A r \in CutSet(n) : r > from => q <= r

RECURSIVE ChunksFrom(_, _)
ChunksFrom(bytes, from) ==
    IF from >= Len(bytes) THEN <<>>
    ELSE LET q == NextCut(Len(bytes), from)
         IN  <<SubSeq(bytes, from + 1, q)>> \o ChunksFrom(bytes, q)
Chunks(bytes) == ChunksFrom(bytes, 0)

(***************************************************************************)
(* Communicator                                                            *)
(***************************************************************************)
(* struct msg as the bytes of the packed struct, and back *)
MsgBytes(m) == <<m.cmd, m.len>> \o m.data
MsgOfBytes(b) == [cmd |-> b[1], len |-> b[2], data |-> Drop(b, HEADER_SIZE)]

(* memcpy / readBytes of bytes onto the start of a packed struct msg *)
CopyMsgBytes(dst, bytes) == MsgOfBytes(Overlay(MsgBytes(dst), 0, bytes))

(* sendResponse that forgets the header in the size it writes *)
sendResponse_noHeaderSize(response) ==
    LET len == IF response.len > MAX_DATA_SIZE THEN MAX_DATA_SIZE ELSE response.len
        r == [response EXCEPT !.len = len]
    IN  [response |-> r, bytes |-> Take(MsgBytes(r), len)]

(* sendResponse with a clamp one byte short of the capacity *)
sendResponse_clampShort(response) ==
    LET len == IF response.len > MAX_DATA_SIZE - 1 THEN MAX_DATA_SIZE - 1 ELSE response.len
        r == [response EXCEPT !.len = len]
    IN  [response |-> r, bytes |-> Take(MsgBytes(r), HEADER_SIZE + len)]

(* Communicator::sendResponse: the clamped response and the bytes written *)
sendResponse(response) ==
    LET len == IF response.len > MAX_DATA_SIZE THEN MAX_DATA_SIZE ELSE response.len
        r == [response EXCEPT !.len = len]
    IN  [response |-> r, bytes |-> Take(MsgBytes(r), HEADER_SIZE + len)]

(* Communicator::attach on the Communicator object c *)
Communicator_attach(c, port) ==
    IF c.m_state = "UNINITIALIZED"
    THEN [c EXCEPT !.m_hostPort = port, !.m_req = ZeroMsg, !.m_state = "IDLE"]
    ELSE c

(* Results of Communicator::hasRequest: c is the Communicator object, buf the
   Stream's available bytes, req_out the caller's object, reason the fault
   latch, line the __LINE__ given to setReason by this call (0: no call) *)
(* a `return false` that has copied m_req to the caller's object *)
NoRequest_clobber(c, buf, req_out, reason) ==
    [c |-> c, buf |-> buf, req_out |-> c.m_req, reason |-> reason,
     ret |-> FALSE, line |-> 0]

NoRequest(c, buf, req_out, reason) ==
    [c |-> c, buf |-> buf, req_out |-> req_out, reason |-> reason,
     ret |-> FALSE, line |-> 0]

(* a fault path that records the reason and leaves the state alone *)
CommPanic_keepState(c, buf, req_out, reason, lineno) ==
    [c |-> c, buf |-> buf, req_out |-> req_out,
     reason |-> setReason(reason, SourceCommunicator, lineno),
     ret |-> FALSE, line |-> lineno]

(* SET_PANIC_REASON(); m_state = PANIC; return false *)
CommPanic(c, buf, req_out, reason, lineno) ==
    [c |-> [c EXCEPT !.m_state = "PANIC"], buf |-> buf, req_out |-> req_out,
     reason |-> setReason(reason, SourceCommunicator, lineno),
     ret |-> FALSE, line |-> lineno]

(* an IDLE case that never sees a header *)
hasRequest_IDLE_never(c, buf, req_out, reason) ==
    NoRequest([c EXCEPT !.m_data_rcvd = 0], buf, req_out, reason)

(* case IDLE *)
hasRequest_IDLE(c, buf, req_out, reason) ==
    NoRequest([c EXCEPT !.m_data_rcvd = 0,
                        !.m_state = IF Len(buf) >= HEADER_SIZE
                                    THEN "READ_REQUEST_HEADER" ELSE "IDLE"],
              buf, req_out, reason)

(* a length test that admits every uint8_t *)
lenAccepted_any(len) == len <= ByteMod - 1

(* the test that admits a declared length *)
lenAccepted(len) == len <= MAX_DATA_SIZE

(* case READ_REQUEST_HEADER *)
hasRequest_HEADER(c, buf, req_out, reason, short) ==
    LET n == readCount(buf, HEADER_SIZE, short)
        c1 == [c EXCEPT !.m_req = CopyMsgBytes(c.m_req, Take(buf, n))]
        rest == Drop(buf, n)
    IN  IF n # HEADER_SIZE THEN CommPanic(c1, rest, req_out, reason, LineHeaderShort)
        ELSE IF c1.m_req.len = 0 THEN
            NoRequest([c1 EXCEPT !.m_state = "RETURN_REQUEST"], rest, req_out, reason)
        ELSE IF lenAccepted(c1.m_req.len) THEN
            NoRequest([c1 EXCEPT !.m_data_rcvd = 0, !.m_state = "READ_REQUEST_DATA"],
                      rest, req_out, reason)
        ELSE CommPanic(c1, rest, req_out, reason, LineLenTooBig)

(* an insertion point that ignores the bytes already received *)
insertAt_start(data, data_rcvd, bytes) == Overlay(data, 0, bytes)

(* uint8_t *ins = &m_req.data[m_data_rcvd]: where the bytes read are stored *)
insertAt(data, data_rcvd, bytes) == Overlay(data, data_rcvd, bytes)

(* a read size that takes all that is available *)
toRead_all(avail, data_left) == avail

(* to_read: the smaller of what is available and what the body still lacks *)
toRead(avail, data_left) == IF avail < data_left THEN avail ELSE data_left

(* case READ_REQUEST_DATA *)
hasRequest_DATA(c, buf, req_out, reason, short) ==
    LET avail == Len(buf)
    IN  IF avail > 0 THEN
            LET data_left == c.m_req.len - c.m_data_rcvd
                to_read == toRead(avail, data_left)
                n == readCount(buf, to_read, short)
                c1 == [c EXCEPT !.m_req.data =
                            insertAt(c.m_req.data, c.m_data_rcvd, Take(buf, n))]
                rest == Drop(buf, n)
            IN  IF n # to_read
                THEN CommPanic(c1, rest, req_out, reason, LineDataShort)
                ELSE NoRequest(
                        [c1 EXCEPT !.m_data_rcvd = c.m_data_rcvd + to_read,
                                   !.m_state = IF c.m_data_rcvd + to_read >= c.m_req.len
                                               THEN "RETURN_REQUEST"
                                               ELSE "READ_REQUEST_DATA"],
                        rest, req_out, reason)
        ELSE NoRequest(c, buf, req_out, reason)

(* the memset of req_out.data past the declared length *)
zeroPad(m, len) ==
    IF len < MAX_DATA_SIZE
    THEN [m EXCEPT !.data = Overlay(m.data, len, Zeros(MAX_DATA_SIZE - len))]
    ELSE m

(* a RETURN_REQUEST case that stays where it is *)
hasRequest_RETURN_stay(c, buf, req_out, reason) ==
    [c |-> c, buf |-> buf,
     req_out |-> zeroPad(CopyMsgBytes(req_out,
                    Take(MsgBytes(c.m_req), HEADER_SIZE + c.m_req.len)), c.m_req.len),
     reason |-> reason, ret |-> TRUE, line |-> 0]

(* case RETURN_REQUEST *)
hasRequest_RETURN(c, buf, req_out, reason) ==
    LET copied == CopyMsgBytes(req_out,
                               Take(MsgBytes(c.m_req), HEADER_SIZE + c.m_req.len))
    IN  [c |-> [c EXCEPT !.m_state = "IDLE"], buf |-> buf,
         req_out |-> zeroPad(copied, c.m_req.len), reason |-> reason,
         ret |-> TRUE, line |-> 0]

(* a PANIC case that starts over *)
hasRequest_PANIC_restart(c, buf, req_out, reason) ==
    NoRequest([c EXCEPT !.m_state = "IDLE"], buf, req_out, reason)

(* case PANIC *)
hasRequest_PANIC(c, buf, req_out, reason) == NoRequest(c, buf, req_out, reason)

(* Communicator::hasRequest; short is the shortfall of this call's readBytes *)
hasRequest(c, buf, req_out, reason, short) ==
    CASE c.m_state = "IDLE" -> hasRequest_IDLE(c, buf, req_out, reason)
      [] c.m_state = "READ_REQUEST_HEADER" ->
            hasRequest_HEADER(c, buf, req_out, reason, short)
      [] c.m_state = "READ_REQUEST_DATA" ->
            hasRequest_DATA(c, buf, req_out, reason, short)
      [] c.m_state = "RETURN_REQUEST" -> hasRequest_RETURN(c, buf, req_out, reason)
      [] c.m_state = "PANIC" -> hasRequest_PANIC(c, buf, req_out, reason)
      [] OTHER -> CommPanic(c, buf, req_out, reason, LineBadState)

(* hasRequest called until it returns true, at most k times, with no
   shortfall: what the calls leave behind *)
RECURSIVE PollUntil(_, _, _, _)
PollUntil(c, buf, req_out, k) ==
    LET r == hasRequest(c, buf, req_out, 0, 0)
    IN  IF r.ret \/ k <= 1 THEN r ELSE PollUntil(r.c, r.buf, r.req_out, k - 1)

(* the Communicator object as a record *)
Comm ==
    [m_state |-> m_state, m_hostPort |-> m_hostPort, m_req |-> m_req,
     m_data_rcvd |-> m_data_rcvd]

SetComm(c) ==
    /\ m_state' = c.m_state
    /\ m_hostPort' = c.m_hostPort
    /\ m_req' = c.m_req
    /\ m_data_rcvd' = c.m_data_rcvd

(* history of the fault latch: the value of the first setReason call *)
FirstPanic(log, source, lineno) ==
    IF log = 0 THEN ReasonValue(source, lineno) ELSE log

(***************************************************************************)
(* TwoWire (Arduino), the bus controller                                   *)
(***************************************************************************)
NoTwoWire == [addr |-> -1, clock |-> 0, onReceive |-> FALSE, onRequest |-> FALSE]
NoBusWrite == [count |-> 0, bytes |-> <<>>, skip |-> 0, reads |-> 0, mask |-> <<>>]
NoLoc == [call |-> "none"]

(* TwoWire::read during a receive callback: the k-th read of the bytes the
   controller sent, -1 stored in a uint8_t once they are used up *)
busRead(bytes, k) == IF k <= Len(bytes) THEN bytes[k] ELSE ByteMod - 1

(***************************************************************************)
(* I2CPeriph                                                               *)
(***************************************************************************)
(* the static members of I2CPeriph and the bus controller as one record *)
Periph ==
    [m_i2c |-> m_i2c, m_addr |-> m_addr, m_speed |-> m_speed,
     m_subaddr_len |-> m_subaddr_len, m_rbuf |-> m_rbuf, m_rcount |-> m_rcount,
     m_wbuf |-> m_wbuf, m_wcount |-> m_wcount, twi |-> twi, busLog |-> busLog]

SetPeriph(p) ==
    /\ m_i2c' = p.m_i2c
    /\ m_addr' = p.m_addr
    /\ m_speed' = p.m_speed
    /\ m_subaddr_len' = p.m_subaddr_len
    /\ m_rbuf' = p.m_rbuf
    /\ m_rcount' = p.m_rcount
    /\ m_wbuf' = p.m_wbuf
    /\ m_wcount' = p.m_wcount
    /\ twi' = p.twi
    /\ busLog' = p.busLog

(* a test that finds a bus attached whatever m_i2c is *)
attached_always(p) == TRUE

(* I2CPeriph::attached *)
attached(p) == p.m_i2c # 0

(* a test that never finds a bus attached *)
attachRejects_never(i2c) == FALSE

(* the test `if (m_i2c)` at the top of I2CPeriph::attach *)
attachRejects(i2c) == i2c # 0

(* a setAddress that registers the callbacks without begin *)
setAddress_noBegin(p, addr) ==
    IF p.m_i2c # 0
    THEN [p EXCEPT !.twi = [p.twi EXCEPT !.onReceive = TRUE, !.onRequest = TRUE],
                   !.busLog = p.busLog \o <<<<"onReceive">>, <<"onRequest">>>>]
    ELSE p

(* I2CPeriph::setAddress *)
setAddress(p, addr) ==
    IF p.m_i2c # 0
    THEN [p EXCEPT !.twi = [p.twi EXCEPT !.addr = addr, !.onReceive = TRUE,
                                         !.onRequest = TRUE],
                   !.busLog = p.busLog \o <<<<"begin", addr>>, <<"onReceive">>,
                                            <<"onRequest">>>>]
    ELSE p

(* I2CPeriph::getAddress *)
getAddress(p) == IF p.m_i2c # 0 THEN p.m_addr ELSE ByteMod - 1

(* I2CPeriph::setSpeed *)
setSpeed(p, speed) ==
    IF speed # 0
    THEN [p EXCEPT !.m_speed = speed, !.twi.clock = speed,
                   !.busLog = Append(p.busLog, <<"setClock", speed>>)]
    ELSE p

(* I2CPeriph::getSpeed *)
getSpeed(p) == p.m_speed

(* I2CPeriph::setSubAddressLength / getSubAddressLength *)
setSubAddressLength(p, len) == [p EXCEPT !.m_subaddr_len = len]
getSubAddressLength(p) == p.m_subaddr_len

(* a capacity test that is off by one *)
overCapacity_offByOne(count) == count > BUFFER_SIZE + 1

(* the test static_cast<size_t>(count) > sizeof(m_wbuf) of _handle_write *)
overCapacity(count) == count > BUFFER_SIZE

(* a test that takes no count for negative *)
negCount_never(count) == FALSE

(* the test count < 0 of _handle_write *)
negCount(count) == count < 0

(* a _handle_write that gives up on a count above the capacity *)
handle_write_dropOverflow(wbuf, wcount, subaddr_len, reason, count, bytes) ==
    IF count < 0 \/ overCapacity(count) THEN
        [wbuf |-> wbuf, wcount |-> wcount,
         reason |-> setReason(reason, SourceI2CPeriph,
                              IF count < 0 THEN LineNegCount ELSE LineOverflow),
         line |-> IF count < 0 THEN LineNegCount ELSE LineOverflow, reads |-> 0]
    ELSE
        [wbuf |-> [i \in 1..Len(wbuf) |->
                      IF i <= count THEN busRead(bytes, subaddr_len + i) ELSE wbuf[i]],
         wcount |-> count, reason |-> reason, line |-> 0,
         reads |-> subaddr_len + count]

(* I2CPeriph::_handle_write(count), with bytes what the controller sent:
   the write buffer, its count and the fault latch afterwards, and the number
   of m_i2c->read() calls made *)
handle_write(wbuf, wcount, subaddr_len, reason, count, bytes) ==
    IF negCount(count) THEN
        [wbuf |-> wbuf, wcount |-> wcount,
         reason |-> setReason(reason, SourceI2CPeriph, LineNegCount),
         line |-> LineNegCount, reads |-> 0]
    ELSE
        LET over == overCapacity(count)
            n == IF over THEN BUFFER_SIZE ELSE count
        IN  [wbuf |-> [i \in 1..Len(wbuf) |->
                          IF i <= n THEN busRead(bytes, subaddr_len + i) ELSE wbuf[i]],
             wcount |-> n,
             reason |-> IF over
                        THEN setReason(reason, SourceI2CPeriph, LineOverflow)
                        ELSE reason,
             line |-> IF over THEN LineOverflow ELSE 0,
             reads |-> subaddr_len + n]

(* a _handle_read that writes the whole buffer *)
handle_read_whole(rbuf, rcount) == rbuf

(* I2CPeriph::_handle_read: the bytes written to the bus *)
handle_read(rbuf, rcount) == Take(rbuf, rcount)

(* the bus controller can enter a callback of I2CPeriph *)
BusCallbackCanRun ==
    intsOn /\ twi.addr # -1 /\ (twi.onReceive \/ twi.onRequest)

(* noInterrupts() and interrupts(): the interrupt enable afterwards *)
noInterrupts(ints) == FALSE
interrupts(ints) == TRUE

(* Panic::setReason from entry to return: the interrupt enable afterwards *)
setReason_mask(ints) == interrupts(noInterrupts(ints))

(* the interrupt enable a receive callback is entered with: cleared where
   the core masks interrupts on entry to a handler, left set where only the
   handler's own priority level is blocked *)
CallbackMasks == BOOLEAN

(* bus writes: what the controller reports and sends *)
BusCounts == {-1, 2, 33}
BusBytes(count) == PatSeq(96, Max(count, 0))

(* the controller finishes a write to the device: onReceive callback *)
BusWrite ==
    /\ BusCallbackCanRun
    /\ twi.onReceive
    /\ \E count \in BusCounts, entry \in CallbackMasks :
        LET r == handle_write(m_wbuf, m_wcount, m_subaddr_len, m_reason,
                              count, BusBytes(count))
        IN  /\ m_wbuf' = r.wbuf
            /\ m_wcount' = r.wcount
            /\ m_reason' = r.reason
            /\ panicLog' = IF r.line # 0
                           THEN FirstPanic(panicLog, SourceI2CPeriph, r.line)
                           ELSE panicLog
            /\ busIn' = [count |-> count, bytes |-> BusBytes(count),
                         skip |-> m_subaddr_len, reads |-> r.reads,
                         mask |-> IF r.line # 0
                                  THEN <<entry, setReason_mask(entry)>>
                                  ELSE <<>>]
            /\ intsOn' = IF r.line # 0 THEN TRUE ELSE intsOn
    /\ UNCHANGED <<commVars, linkVars, msg, ret, inflight, cfgVars, m_rbuf,
                   m_rcount, twi, busLog, busOut, m_caps, pc, loc>>

(* the controller reads from the device: onRequest callback *)
BusReadRequest ==
    /\ BusCallbackCanRun
    /\ twi.onRequest
    /\ busOut' = handle_read(m_rbuf, m_rcount)
    /\ UNCHANGED <<commVars, linkVars, msg, ret, inflight, m_reason, panicLog,
                   cfgVars, bufVars, twi, busLog, busIn, m_caps, intsOn, pc, loc>>

(***************************************************************************)
(* Companion: command dispatch                                             *)
(***************************************************************************)
SUCCESS == 0
UNIMPLEMENTED == 251
UNINITIALIZED == 252
INVALID_PARAM == 253
NOT_SUPPORTED == 254
INVALID_CMD == 255

FW_GET_VERSION == 0
FW_GET_CAPABILITIES == 1
I2C_GET_ADDR == 8
I2C_SET_ADDR == 9
I2C_GET_SPEED == 10
I2C_SET_SPEED == 11
I2C_GET_SUBADDR_LEN == 12
I2C_SET_SUBADDR_LEN == 13
I2C_GET_MODE_FLAGS == 14
I2C_SET_MODE_FLAGS == 15
I2C_SET_READ_BUFFER == 16
I2C_GET_WRITE_BUFFER == 17

CAP_I2C_PERIPH == 1
MaxAddr == 127

(* VERSION_MAJOR, VERSION_MINOR, VERSION_PATCH, VERSION_EXTRA of Version.h *)
VERSION == <<0, 2, 0, 0>>

(* a uint32_t as four bytes, least significant first, and back *)
LE32(v) == <<v % 256, (v \div 256) % 256, (v \div 65536) % 256,
             (v \div 16777216) % 256>>
OfLE32(b) == b[1] + b[2] * 256 + b[3] * 65536 + b[4] * 16777216

(* m_caps |= CAP_I2C_PERIPH *)
OrCap(caps) == IF caps % 2 = 1 THEN caps ELSE caps + CAP_I2C_PERIPH

(* a reply that leaves msg.len as the request had it *)
Reply1_keepLen(m, code) == [m EXCEPT !.data[1] = code]

(* msg.len = 1; msg.data[0] = code *)
Reply1(m, code) == [m EXCEPT !.len = 1, !.data[1] = code]
(* a reply whose length is beyond the payload capacity *)
ReplyN_long(m, bytes) ==
    [m EXCEPT !.len = Len(bytes) + MAX_DATA_SIZE, !.data = Overlay(m.data, 0, bytes)]

(* msg.len = Len(bytes); msg.data[0..] = bytes *)
ReplyN(m, bytes) == [m EXCEPT !.len = Len(bytes), !.data = Overlay(m.data, 0, bytes)]

(* a validation of I2C_SET_ADDR that looks at the length only *)
addrInvalid_lenOnly(len, a) == len # 1

(* I2C_SET_ADDR: msg.len != 1 || msg.data[0] > 0x7f *)
addrInvalid(len, a) == len # 1 \/ a > MaxAddr

(* I2C_SET_SPEED: msg.len != 4 || msg.data[0] == 0 *)
speedInvalid(len, d0) == len # 4 \/ d0 = 0

(* the switch of Companion::handleHostMessage up to sendResponse: the msg, the
   peripheral, and what is left to do: "send" the response, or first run
   setReadBuffer ("srb") or getWriteBuffer ("gwb") on the exchange buffers *)
handleHostMessage(m, p, caps) ==
    LET done(m2, p2) == [msg |-> m2, p |-> p2, next |-> "send"]
    IN
    CASE m.cmd = FW_GET_VERSION -> done(ReplyN(m, VERSION), p)
      [] m.cmd = FW_GET_CAPABILITIES -> done(ReplyN(m, LE32(caps)), p)
      [] m.cmd = I2C_GET_ADDR ->
            done(Reply1(m, IF attached(p) THEN getAddress(p) ELSE NOT_SUPPORTED), p)
      [] m.cmd = I2C_SET_ADDR ->
            IF addrInvalid(m.len, m.data[1]) THEN done(Reply1(m, INVALID_PARAM), p)
            ELSE IF attached(p) THEN done(Reply1(m, SUCCESS), setAddress(p, m.data[1]))
            ELSE done(Reply1(m, NOT_SUPPORTED), p)
      [] m.cmd = I2C_GET_SPEED ->
            IF attached(p) THEN done(ReplyN(m, LE32(getSpeed(p))), p)
            ELSE done(Reply1(m, NOT_SUPPORTED), p)
      [] m.cmd = I2C_SET_SPEED ->
            IF speedInvalid(m.len, m.data[1]) THEN done(Reply1(m, INVALID_PARAM), p)
            ELSE IF attached(p)
                 THEN done(Reply1(m, SUCCESS), setSpeed(p, OfLE32(Take(m.data, 4))))
            ELSE done(Reply1(m, NOT_SUPPORTED), p)
      [] m.cmd = I2C_GET_SUBADDR_LEN ->
            done(Reply1(m, IF attached(p) THEN getSubAddressLength(p)
                           ELSE NOT_SUPPORTED), p)
      [] m.cmd = I2C_SET_SUBADDR_LEN ->
            IF attached(p) THEN done(Reply1(m, SUCCESS), setSubAddressLength(p, m.data[1]))
            ELSE done(Reply1(m, NOT_SUPPORTED), p)
      [] m.cmd = I2C_GET_MODE_FLAGS -> done(Reply1(m, UNIMPLEMENTED), p)
      [] m.cmd = I2C_SET_MODE_FLAGS -> done(Reply1(m, UNIMPLEMENTED), p)
      [] m.cmd = I2C_SET_READ_BUFFER ->
            IF m.len < 1 THEN done(Reply1(m, INVALID_PARAM), p)
            ELSE IF attached(p) THEN [msg |-> m, p |-> p, next |-> "srb"]
            ELSE done(Reply1(m, NOT_SUPPORTED), p)
      [] m.cmd = I2C_GET_WRITE_BUFFER ->
            IF attached(p) THEN [msg |-> m, p |-> p, next |-> "gwb"]
            ELSE done(Reply1(m, NOT_SUPPORTED), p)
      [] OTHER -> done(Reply1(m, INVALID_CMD), p)

(* a setReadBuffer that takes len as it comes *)
setReadBuffer_len_unclamped(len) == len

(* I2CPeriph::setReadBuffer: the clamp of len, and the memcpy into m_rbuf *)
setReadBuffer_len(len) == IF len > BUFFER_SIZE THEN BUFFER_SIZE ELSE len
setReadBuffer_copy(rbuf, buf, len) == Overlay(rbuf, 0, Take(buf, len))

(* I2CPeriph::getWriteBuffer: the length returned, and the memcpy into buf *)
getWriteBuffer_len(wcount, max_len) == IF wcount > max_len THEN max_len ELSE wcount

(* a copy that lands one byte further on *)
getWriteBuffer_copy_shift(buf, wbuf, n) == Overlay(buf, 1, Take(wbuf, n))

(* I2CPeriph::getWriteBuffer: memcpy(buf, m_wbuf, ret) *)
getWriteBuffer_copy(buf, wbuf, n) == Overlay(buf, 0, Take(wbuf, n))

(* a setReadBuffer that leaves interrupts as they are *)
setReadBuffer_mask_missing(ints) == ints

(* noInterrupts() on entry to setReadBuffer / getWriteBuffer, interrupts() on
   exit: the interrupt enable afterwards *)
setReadBuffer_mask(ints) == FALSE
getWriteBuffer_mask(ints) == FALSE

(***************************************************************************)
(* Initial state: the objects as constructed, nothing attached             *)
(***************************************************************************)
Init ==
    /\ m_state = "UNINITIALIZED"
    /\ m_hostPort = 0
    /\ m_req = ZeroMsg
    /\ m_data_rcvd = 0
    /\ wire = <<>>
    /\ rx = <<>>
    /\ tx = <<>>
    /\ msg = ZeroMsg
    /\ ret = FALSE
    /\ inflight = <<>>
    /\ m_reason = 0
    /\ panicLog = 0
    /\ m_i2c = 0
    /\ m_addr = 0
    /\ m_speed = 0
    /\ m_subaddr_len = 1
    /\ m_rbuf = Zeros(BUFFER_SIZE)
    /\ m_rcount = 0
    /\ m_wbuf = Zeros(BUFFER_SIZE)
    /\ m_wcount = 0
    /\ twi = NoTwoWire
    /\ busLog = <<>>
    /\ busIn = NoBusWrite
    /\ busOut = <<>>
    /\ m_caps = 0
    /\ intsOn = TRUE
    /\ pc = "setup"
    /\ loc = NoLoc

(***************************************************************************)
(* The link                                                                *)
(***************************************************************************)
(* the next piece of bytes on the link reaches the Stream's receive buffer *)
LinkArrive ==
    /\ wire # <<>>
    /\ rx' = rx \o Head(wire)
    /\ wire' = Tail(wire)
    /\ UNCHANGED <<commVars, tx, msg, ret, inflight, m_reason, panicLog, i2cVars, mainVars>>

(* the host writes a frame of its own making (the header is whatever it sent) *)
HostSendRaw ==
    /\ Len(inflight) < MaxInFlight
    /\ \E m \in RawMsgs :
        /\ wire' = wire \o Chunks(RawBytes(m))
        /\ inflight' = Append(inflight, [m |-> m, sent |-> FALSE, bytes |-> RawBytes(m)])
    /\ UNCHANGED <<commVars, rx, tx, msg, ret, m_reason, panicLog, i2cVars, mainVars>>

(***************************************************************************)
(* A caller of the Communicator alone, its port looped back                *)
(***************************************************************************)
(* Communicator::attach(port) *)
CallAttach ==
    /\ SetComm(Communicator_attach(Comm, 1))
    /\ UNCHANGED <<linkVars, msg, ret, inflight, m_reason, panicLog, i2cVars, mainVars>>

(* the caller fills its msg object and calls sendResponse; the bytes written
   to the port come back on the port's receive side *)
CallSendResponse ==
    /\ m_hostPort # 0
    /\ Len(inflight) < MaxInFlight
    /\ \E m \in SendMsgs :
        LET r == sendResponse(m)
        IN  /\ msg' = r.response
            /\ wire' = wire \o Chunks(r.bytes)
            /\ inflight' = Append(inflight, [m |-> m, sent |-> TRUE, bytes |-> r.bytes])
    /\ UNCHANGED <<commVars, rx, tx, ret, m_reason, panicLog, i2cVars, mainVars>>

(* the caller calls hasRequest(msg) *)
CallHasRequest ==
    \E short \in Shortfalls :
        LET r == hasRequest(Comm, rx, msg, m_reason, short)
        IN  /\ SetComm(r.c)
            /\ rx' = r.buf
            /\ msg' = r.req_out
            /\ ret' = r.ret
            /\ m_reason' = r.reason
            /\ panicLog' = IF r.line # 0
                           THEN FirstPanic(panicLog, SourceCommunicator, r.line)
                           ELSE panicLog
            /\ inflight' = IF r.ret /\ inflight # <<>> THEN Tail(inflight) ELSE inflight
            /\ UNCHANGED <<wire, tx, i2cVars, mainVars>>

NextComm ==
    \/ CallAttach
    \/ CallSendResponse
    \/ CallHasRequest
    \/ HostSendRaw
    \/ LinkArrive

SpecComm == Init /\ [][NextComm]_vars

(***************************************************************************)
(* The same caller on a link that never reads short, polling for ever      *)
(***************************************************************************)
(* the caller calls hasRequest(msg) and readBytes transfers what it is asked *)
HasRequestExact ==
    LET r == hasRequest(Comm, rx, msg, m_reason, 0)
    IN  /\ SetComm(r.c)
        /\ rx' = r.buf
        /\ msg' = r.req_out
        /\ ret' = r.ret
        /\ m_reason' = r.reason
        /\ panicLog' = IF r.line # 0
                       THEN FirstPanic(panicLog, SourceCommunicator, r.line)
                       ELSE panicLog
        /\ inflight' = IF r.ret /\ inflight # <<>> THEN Tail(inflight) ELSE inflight
        /\ UNCHANGED <<wire, tx, i2cVars, mainVars>>

(* the host writes its next frame once the last one has been taken *)
NextLive ==
    \/ CallAttach
    \/ inflight = <<>> /\ CallSendResponse
    \/ HasRequestExact
    \/ inflight = <<>> /\ HostSendRaw
    \/ LinkArrive

(* loop() calls processEvents, and with it hasRequest, again and again; the
   bytes written to the link all arrive *)
SpecLive ==
    /\ Init /\ [][NextLive]_vars
    /\ WF_vars(HasRequestExact)
    /\ WF_vars(LinkArrive)

(***************************************************************************)
(* The device: sketch, main loop, host                                     *)
(***************************************************************************)
(* a request as the host sends it: the struct msg it encodes *)
MkReq(cmd, payload) ==
    [cmd |-> cmd, len |-> Len(payload),
     data |-> payload \o Zeros(MAX_DATA_SIZE - Len(payload))]

HostReqs ==
    {MkReq(I2C_GET_WRITE_BUFFER, <<>>),
     MkReq(I2C_SET_READ_BUFFER, PatSeq(48, 40)),
     MkReq(I2C_SET_SUBADDR_LEN, <<2>>)}

(* a request reaches the port in two pieces when its body is longer than a
   byte: the header with the first body byte, then the rest *)
Pieces(bytes) ==
    IF Len(bytes) > HEADER_SIZE + 1
    THEN <<Take(bytes, HEADER_SIZE + 1), Drop(bytes, HEADER_SIZE + 1)>>
    ELSE <<bytes>>

(* arguments of Companion::attachI2C: bus, addr, speed. The first call passes
   default_i2c_addr and default_i2c_speed, a later one may pass anything. *)
default_i2c_addr == 120
default_i2c_speed == 100000
AttachArgs(i2c) ==
    IF i2c = 0 THEN {<<1, default_i2c_addr, default_i2c_speed>>}
    ELSE {<<1, default_i2c_addr, default_i2c_speed>>, <<2, 32, 400000>>}

(* the host writes a request, or a header of its own making, once the
   previous one has been answered *)
HostRequest ==
    /\ inflight = <<>>
    /\ wire = <<>>
    /\ rx = <<>>
    /\ \/ \E m \in HostReqs :
            LET bytes == Take(MsgBytes(m), HEADER_SIZE + m.len)
            IN  /\ wire' = Pieces(bytes)
                /\ inflight' = <<[m |-> m, sent |-> FALSE, bytes |-> bytes]>>
       \/ \E m \in RawMsgs :
            /\ wire' = <<RawBytes(m)>>
            /\ inflight' = <<[m |-> m, sent |-> FALSE, bytes |-> RawBytes(m)]>>
    /\ UNCHANGED <<commVars, rx, tx, msg, ret, m_reason, panicLog, i2cVars, mainVars>>

(* Companion::attachHostInterface, called from the sketch's setup() *)
AttachHostInterface ==
    /\ pc = "setup"
    /\ SetComm(Communicator_attach(Comm, 1))
    /\ UNCHANGED <<linkVars, msg, ret, inflight, m_reason, panicLog, i2cVars, mainVars>>

(* a main-context call of Panic::setReason begins *)
CallSetReason(caller, source, lineno) ==
    /\ pc' = "sr_mask"
    /\ loc' = [call |-> "setReason", caller |-> caller, source |-> source,
               line |-> lineno, unset |-> FALSE]

(* Companion::attachI2C -> I2CPeriph::attach, called from the sketch's
   setup(): the test for a bus already attached, then m_i2c = bus;
   m_addr = addr *)
AttachI2C ==
    /\ pc = "setup"
    /\ busLog' = <<>>
    /\ \E a \in AttachArgs(m_i2c) :
        IF attachRejects(m_i2c)
        THEN /\ CallSetReason("attach", SourceI2CPeriph, LineDoubleAttach)
             /\ UNCHANGED <<m_i2c, m_addr>>
        ELSE /\ m_i2c' = a[1]
             /\ m_addr' = a[2]
             /\ pc' = "att_rbuf"
             /\ loc' = [call |-> "attach", addr |-> a[2], speed |-> a[3]]
    /\ UNCHANGED <<commVars, linkVars, msg, ret, inflight, m_reason, panicLog,
                   m_speed, m_subaddr_len, bufVars, twi, busIn, busOut, m_caps, intsOn>>

(* memset(m_rbuf, 0, sizeof(m_rbuf)) *)
AttachResetRbuf ==
    /\ pc = "att_rbuf"
    /\ m_rbuf' = Zeros(BUFFER_SIZE)
    /\ pc' = "att_rcount"
    /\ UNCHANGED <<commVars, linkVars, msg, ret, inflight, m_reason, panicLog,
                   cfgVars, m_rcount, m_wbuf, m_wcount, busVars, m_caps, intsOn, loc>>

(* m_rcount = 0 *)
AttachResetRcount ==
    /\ pc = "att_rcount"
    /\ m_rcount' = 0
    /\ pc' = "att_wbuf"
    /\ UNCHANGED <<commVars, linkVars, msg, ret, inflight, m_reason, panicLog,
                   cfgVars, m_rbuf, m_wbuf, m_wcount, busVars, m_caps, intsOn, loc>>

(* memset(m_wbuf, 0, sizeof(m_wbuf)) *)
AttachResetWbuf ==
    /\ pc = "att_wbuf"
    /\ m_wbuf' = Zeros(BUFFER_SIZE)
    /\ pc' = "att_wcount"
    /\ UNCHANGED <<commVars, linkVars, msg, ret, inflight, m_reason, panicLog,
                   cfgVars, m_rbuf, m_rcount, m_wcount, busVars, m_caps, intsOn, loc>>

(* m_wcount = 0 *)
AttachResetWcount ==
    /\ pc = "att_wcount"
    /\ m_wcount' = 0
    /\ pc' = "att_addr"
    /\ UNCHANGED <<commVars, linkVars, msg, ret, inflight, m_reason, panicLog,
                   cfgVars, m_rbuf, m_rcount, m_wbuf, busVars, m_caps, intsOn, loc>>

(* setAddress(addr) *)
AttachSetAddress ==
    /\ pc = "att_addr"
    /\ SetPeriph(setAddress(Periph, loc.addr))
    /\ pc' = "att_speed"
    /\ UNCHANGED <<commVars, linkVars, msg, ret, inflight, m_reason, panicLog,
                   busIn, busOut, m_caps, intsOn, loc>>

(* setSpeed(speed) *)
AttachSetSpeed ==
    /\ pc = "att_speed"
    /\ SetPeriph(setSpeed(Periph, loc.speed))
    /\ pc' = "att_ret"
    /\ UNCHANGED <<commVars, linkVars, msg, ret, inflight, m_reason, panicLog,
                   busIn, busOut, m_caps, intsOn, loc>>

(* I2CPeriph::attach returns; Companion::attachI2C sets the capability bit *)
AttachReturn ==
    /\ pc = "att_ret"
    /\ m_caps' = OrCap(m_caps)
    /\ pc' = "setup"
    /\ loc' = NoLoc
    /\ UNCHANGED <<commVars, linkVars, msg, ret, inflight, m_reason, panicLog,
                   i2cVars, intsOn>>

(* Panic::setReason in the main context: noInterrupts() *)
SetReasonMask ==
    /\ pc = "sr_mask"
    /\ intsOn' = noInterrupts(intsOn)
    /\ panicLog' = FirstPanic(panicLog, loc.source, loc.line)
    /\ pc' = "sr_test"
    /\ UNCHANGED <<commVars, linkVars, msg, ret, inflight, m_reason, i2cVars,
                   m_caps, loc>>

(* if (m_reason == 0) *)
SetReasonTest ==
    /\ pc = "sr_test"
    /\ loc' = [loc EXCEPT !.unset = reasonUnset(m_reason)]
    /\ pc' = "sr_set"
    /\ UNCHANGED <<commVars, linkVars, msg, ret, inflight, m_reason, panicLog,
                   i2cVars, m_caps, intsOn>>

(* m_reason = ...; interrupts(); return to the caller *)
SetReasonSet ==
    /\ pc = "sr_set"
    /\ m_reason' = IF loc.unset THEN ReasonValue(loc.source, loc.line) ELSE m_reason
    /\ intsOn' = interrupts(intsOn)
    /\ pc' = IF loc.caller = "attach" THEN "att_ret" ELSE "poll_panic"
    /\ loc' = [call |-> "fault", caller |-> loc.caller]
    /\ UNCHANGED <<commVars, linkVars, msg, ret, inflight, panicLog, i2cVars, m_caps>>

(* setup() returns; from now on loop() calls processEvents() again and again *)
EnterLoop ==
    /\ pc = "setup"
    /\ pc' = "top"
    /\ UNCHANGED <<commVars, linkVars, msg, ret, inflight, m_reason, panicLog,
                   i2cVars, m_caps, intsOn, loc>>

(* Companion::processEvents up to the call of hasRequest: the fault latch is
   tested, and panicLoop() masks interrupts and never returns *)
ProcessEvents ==
    /\ pc = "top"
    /\ IF active(m_reason)
       THEN pc' = "panicLoop" /\ intsOn' = noInterrupts(intsOn)
       ELSE pc' = "poll" /\ intsOn' = intsOn
    /\ UNCHANGED <<commVars, linkVars, msg, ret, inflight, m_reason, panicLog,
                   i2cVars, m_caps, loc>>

(* m_comm.hasRequest(msg). When the call reaches SET_PANIC_REASON() it goes
   through setReason step by step, and sets m_state = PANIC after it. *)
Poll ==
    /\ pc = "poll"
    /\ \E short \in Shortfalls :
        LET r == hasRequest(Comm, rx, msg, m_reason, short)
        IN  /\ rx' = r.buf
            /\ msg' = r.req_out
            /\ IF r.line # 0
               THEN /\ SetComm([r.c EXCEPT !.m_state = m_state])
                    /\ CallSetReason("hasRequest", SourceCommunicator, r.line)
                    /\ UNCHANGED ret
               ELSE /\ SetComm(r.c)
                    /\ ret' = r.ret
                    /\ pc' = IF r.ret THEN "handle" ELSE "top"
                    /\ loc' = loc
    /\ UNCHANGED <<wire, tx, inflight, m_reason, panicLog, i2cVars, m_caps, intsOn>>

(* m_state = PANIC; return false *)
PollPanic ==
    /\ pc = "poll_panic"
    /\ m_state' = "PANIC"
    /\ ret' = FALSE
    /\ pc' = "top"
    /\ loc' = NoLoc
    /\ UNCHANGED <<m_hostPort, m_req, m_data_rcvd, linkVars, msg, inflight,
                   m_reason, panicLog, i2cVars, m_caps, intsOn>>

(* the host has its answer *)
Answered == IF inflight # <<>> THEN Tail(inflight) ELSE inflight

(* handleHostMessage(msg): the switch, and sendResponse unless the command
   first goes through the exchange buffers *)
Handle ==
    /\ pc = "handle"
    /\ LET h == handleHostMessage(msg, [Periph EXCEPT !.busLog = <<>>], m_caps)
       IN  /\ SetPeriph(h.p)
           /\ CASE h.next = "send" ->
                    /\ msg' = sendResponse(h.msg).response
                    /\ tx' = sendResponse(h.msg).bytes
                    /\ inflight' = Answered
                    /\ pc' = "top"
                    /\ UNCHANGED <<intsOn, loc>>
                [] h.next = "srb" ->
                    /\ intsOn' = setReadBuffer_mask(intsOn)
                    /\ pc' = "srb_copy"
                    /\ loc' = [call |-> "setReadBuffer", len |-> msg.len]
                    /\ UNCHANGED <<msg, tx, inflight>>
                [] h.next = "gwb" ->
                    /\ intsOn' = getWriteBuffer_mask(intsOn)
                    /\ pc' = "gwb_len"
                    /\ loc' = [call |-> "getWriteBuffer", max_len |-> MAX_DATA_SIZE,
                               ret |-> 0]
                    /\ UNCHANGED <<msg, tx, inflight>>
    /\ UNCHANGED <<commVars, wire, rx, ret, m_reason, panicLog,
                   busIn, busOut, m_caps>>

(* setReadBuffer: clamp len; memcpy(m_rbuf, buf, len) *)
SetReadBufferCopy ==
    /\ pc = "srb_copy"
    /\ m_rbuf' = setReadBuffer_copy(m_rbuf, msg.data, setReadBuffer_len(loc.len))
    /\ loc' = [loc EXCEPT !.len = setReadBuffer_len(loc.len)]
    /\ pc' = "srb_count"
    /\ UNCHANGED <<commVars, linkVars, msg, ret, inflight, m_reason, panicLog,
                   cfgVars, m_rcount, m_wbuf, m_wcount, busVars, m_caps, intsOn>>

(* m_rcount = len *)
SetReadBufferCount ==
    /\ pc = "srb_count"
    /\ m_rcount' = loc.len
    /\ pc' = "srb_exit"
    /\ UNCHANGED <<commVars, linkVars, msg, ret, inflight, m_reason, panicLog,
                   cfgVars, m_rbuf, m_wbuf, m_wcount, busVars, m_caps, intsOn, loc>>

(* interrupts(); back in handleHostMessage: SUCCESS, sendResponse *)
SetReadBufferExit ==
    /\ pc = "srb_exit"
    /\ intsOn' = interrupts(intsOn)
    /\ msg' = sendResponse(Reply1(msg, SUCCESS)).response
    /\ tx' = sendResponse(Reply1(msg, SUCCESS)).bytes
    /\ inflight' = Answered
    /\ pc' = "top"
    /\ loc' = NoLoc
    /\ UNCHANGED <<commVars, wire, rx, ret, m_reason, panicLog, i2cVars, m_caps>>

(* getWriteBuffer: ret = min(m_wcount, max_len) *)
GetWriteBufferLen ==
    /\ pc = "gwb_len"
    /\ loc' = [loc EXCEPT !.ret = getWriteBuffer_len(m_wcount, loc.max_len)]
    /\ pc' = "gwb_copy"
    /\ UNCHANGED <<commVars, linkVars, msg, ret, inflight, m_reason, panicLog,
                   i2cVars, m_caps, intsOn>>

(* memcpy(buf, m_wbuf, ret) *)
GetWriteBufferCopy ==
    /\ pc = "gwb_copy"
    /\ msg' = [msg EXCEPT !.data = getWriteBuffer_copy(msg.data, m_wbuf, loc.ret)]
    /\ pc' = "gwb_exit"
    /\ UNCHANGED <<commVars, linkVars, ret, inflight, m_reason, panicLog,
                   i2cVars, m_caps, intsOn, loc>>

(* interrupts(); back in handleHostMessage: msg.len = ret, sendResponse *)
GetWriteBufferExit ==
    /\ pc = "gwb_exit"
    /\ intsOn' = interrupts(intsOn)
    /\ msg' = sendResponse([msg EXCEPT !.len = loc.ret]).response
    /\ tx' = sendResponse([msg EXCEPT !.len = loc.ret]).bytes
    /\ inflight' = Answered
    /\ pc' = "top"
    /\ loc' = NoLoc
    /\ UNCHANGED <<commVars, wire, rx, ret, m_reason, panicLog, i2cVars, m_caps>>

Next ==
    \/ AttachHostInterface
    \/ AttachI2C
    \/ AttachResetRbuf
    \/ AttachResetRcount
    \/ AttachResetWbuf
    \/ AttachResetWcount
    \/ AttachSetAddress
    \/ AttachSetSpeed
    \/ AttachReturn
    \/ EnterLoop
    \/ SetReasonMask
    \/ SetReasonTest
    \/ SetReasonSet
    \/ ProcessEvents
    \/ Poll
    \/ PollPanic
    \/ Handle
    \/ SetReadBufferCopy
    \/ SetReadBufferCount
    \/ SetReadBufferExit
    \/ GetWriteBufferLen
    \/ GetWriteBufferCopy
    \/ GetWriteBufferExit
    \/ BusWrite
    \/ BusReadRequest
    \/ HostRequest
    \/ LinkArrive

Spec == Init /\ [][Next]_vars

(***************************************************************************)
(* The device with whole requests delivered: command dispatch              *)
(***************************************************************************)
(* requests the host sends: every command of the table and four bytes that
   are no command, with payloads of several lengths *)
UnknownCmds == {2, 18, 128, 255}
PlainCmds ==
    {FW_GET_VERSION, FW_GET_CAPABILITIES, I2C_GET_ADDR, I2C_GET_SPEED,
     I2C_GET_SUBADDR_LEN, I2C_GET_MODE_FLAGS, I2C_SET_MODE_FLAGS,
     I2C_GET_WRITE_BUFFER}
DispReqs ==
    {MkReq(c, p) : c \in PlainCmds \cup UnknownCmds, p \in {<<>>, PatSeq(48, 5)}}
    \cup {MkReq(I2C_SET_ADDR, p) : p \in {<<>>, <<32>>, <<128>>, <<32, 1>>}}
    \cup {MkReq(I2C_SET_SPEED, p) :
            p \in {<<>>, <<128, 26, 6, 0>>, <<0, 232, 3, 0>>, <<0, 0, 0, 0>>,
                   <<128, 26, 6>>, <<128, 26, 6, 0, 0>>}}
    \cup {MkReq(I2C_SET_SUBADDR_LEN, p) : p \in {<<>>, <<2>>}}
    \cup {MkReq(I2C_SET_READ_BUFFER, p) : p \in {<<>>, PatSeq(32, 3), PatSeq(48, 40)}}

(* what the host sends while the device starts up: one request, or a request
   that changes the peripheral followed by one that shows the change *)
Req(cmd, payload) == MkReq(cmd, payload)
HostScripts ==
    {<<m>> : m \in DispReqs}
    \cup {<<Req(I2C_SET_READ_BUFFER, PatSeq(48, 40)), Req(I2C_SET_READ_BUFFER, PatSeq(32, 3))>>,
          <<Req(I2C_SET_READ_BUFFER, PatSeq(32, 3)), Req(I2C_SET_READ_BUFFER, <<>>)>>,
          <<Req(I2C_GET_WRITE_BUFFER, <<>>), Req(I2C_GET_WRITE_BUFFER, <<>>)>>,
          <<Req(I2C_SET_SUBADDR_LEN, <<2>>), Req(I2C_GET_WRITE_BUFFER, <<>>)>>,
          <<Req(I2C_SET_ADDR, <<32>>), Req(I2C_SET_ADDR, <<128>>)>>,
          <<Req(I2C_SET_SPEED, <<128, 26, 6, 0>>), Req(I2C_SET_SPEED, <<0, 232, 3, 0>>)>>,
          <<Req(255, PatSeq(48, 5)), Req(I2C_GET_SPEED, <<>>)>>,
          <<Req(I2C_SET_ADDR, <<32>>), Req(I2C_GET_ADDR, <<>>)>>}

(* the bytes of a request on the link *)
ReqBytes(m) == Take(MsgBytes(m), HEADER_SIZE + m.len)

(* the host writes its requests; they wait on the link, one piece each *)
HostSendScript ==
    /\ pc = "setup"
    /\ wire = <<>>
    /\ \E script \in HostScripts :
        wire' = [i \in 1..Len(script) |-> ReqBytes(script[i])]
    /\ UNCHANGED <<commVars, rx, tx, msg, ret, inflight, m_reason, panicLog,
                   i2cVars, mainVars>>

(* the next request arrives whole: hasRequest(msg) is called, one call per
   processEvents, until it returns the request *)
Deliver ==
    /\ pc = "poll"
    /\ wire # <<>>
    /\ LET r == PollUntil(Comm, Head(wire), msg, PollsPerFrame)
       IN  /\ r.ret
           /\ SetComm(r.c)
           /\ msg' = r.req_out
           /\ ret' = r.ret
           /\ inflight' = <<[m |-> r.req_out, sent |-> FALSE, bytes |-> Head(wire)]>>
    /\ wire' = Tail(wire)
    /\ pc' = "handle"
    /\ UNCHANGED <<rx, tx, m_reason, panicLog, i2cVars, m_caps, intsOn, loc>>

NextDisp ==
    \/ HostSendScript
    \/ AttachHostInterface
    \/ AttachI2C
    \/ AttachResetRbuf
    \/ AttachResetRcount
    \/ AttachResetWbuf
    \/ AttachResetWcount
    \/ AttachSetAddress
    \/ AttachSetSpeed
    \/ AttachReturn
    \/ EnterLoop
    \/ SetReasonMask
    \/ SetReasonTest
    \/ SetReasonSet
    \/ ProcessEvents
    \/ Deliver
    \/ Handle
    \/ SetReadBufferCopy
    \/ SetReadBufferCount
    \/ SetReadBufferExit
    \/ GetWriteBufferLen
    \/ GetWriteBufferCopy
    \/ GetWriteBufferExit
    \/ BusWrite
    \/ BusReadRequest

SpecDisp == Init /\ [][NextDisp]_vars

(***************************************************************************)
(* Properties of the Communicator                                          *)
(***************************************************************************)
(* this step is the hasRequest call that returns the oldest frame in flight *)
ReturnsHead ==
    /\ m_state = "RETURN_REQUEST"
    /\ m_state' = "IDLE"
    /\ inflight # <<>>

(* C1: round trip. A frame with len in 0..MAX_DATA_SIZE given to sendResponse
   comes back from hasRequest with the same cmd, the same len, the same first
   len data bytes, and zero in every data byte from len up to the end. *)
C1_RoundTrip ==
    [][(ReturnsHead /\ Head(inflight).sent
            /\ Head(inflight).m.len <= MAX_DATA_SIZE)
        => LET m == Head(inflight).m
           IN  /\ ret'
               /\ msg'.cmd = m.cmd
               /\ msg'.len = m.len
               /\ \A i \in 1..MAX_DATA_SIZE :
                    msg'.data[i] = IF i <= m.len THEN m.data[i] ELSE 0]_vars

(* a returned frame whose payload was sent over a dirty msg object *)
C1_Witness ==
    /\ ret
    /\ m_state = "IDLE"
    /\ msg.cmd = 17
    /\ msg.len = 3
    /\ msg.data[3] = PatByte(16, 3)
    /\ msg.data[4] = 0
    /\ msg.data[MAX_DATA_SIZE] = 0

(* the frame a fresh Communicator returns when all of bytes is available from
   the first call on: hasRequest called until it returns true, at most
   PollsPerFrame times *)
Contiguous(bytes) ==
    PollUntil(Communicator_attach(
                  [m_state |-> "UNINITIALIZED", m_hostPort |-> 0,
                   m_req |-> ZeroMsg, m_data_rcvd |-> 0], 1),
              bytes, ZeroMsg, PollsPerFrame)

(* C2: fragmentation invariance. However the bytes of a valid frame arrive
   across hasRequest calls, the frame returned is the one returned when all
   its bytes are available at once. *)
C2_Fragmentation ==
    [][(ReturnsHead /\ Head(inflight).bytes[2] <= MAX_DATA_SIZE)
        => LET whole == Contiguous(Head(inflight).bytes)
           IN  /\ whole.ret
               /\ ret'
               /\ msg' = whole.req_out]_vars

(* a 64-byte payload returned after its body was read in more than one call:
   the second frame in flight still has bytes on the link *)
C2_Witness ==
    /\ ret
    /\ msg.len = MAX_DATA_SIZE
    /\ msg.data = PatSeq(16, MAX_DATA_SIZE)
    /\ wire # <<>>
    /\ rx # <<>>

(* C3: length bound. Once a header declaring more than MAX_DATA_SIZE bytes
   has been read, the state is PANIC, the fault latch is active, and the call
   that read it and every later call returned false. *)
C3_LengthBound ==
    m_req.len > MAX_DATA_SIZE
        => (m_state = "PANIC" /\ m_reason # 0 /\ ~ret)

C3_Witness ==
    /\ m_req.len = MAX_DATA_SIZE + 1
    /\ m_state = "PANIC"
    /\ m_reason = ReasonValue(SourceCommunicator, LineLenTooBig)
    /\ Len(rx) >= RawBody

(* C4: PANIC is absorbing. From PANIC every step, whatever arrives on the
   link, leaves the state PANIC and hasRequest's result false. *)
C4_PanicAbsorbing ==
    [][m_state = "PANIC" => (m_state' = "PANIC" /\ ~ret')]_vars

(* in PANIC with a whole frame that arrived after the fault *)
C4_Witness ==
    /\ m_state = "PANIC"
    /\ inflight # <<>>
    /\ Len(rx) >= HEADER_SIZE + MAX_DATA_SIZE
    /\ wire = <<>>

(***************************************************************************)
(* Properties of the device                                                *)
(***************************************************************************)
(* the main context has made the first and not yet the last step of an
   access to an exchange buffer and its count *)
MidAccessPcs == {"att_rcount", "att_wbuf", "att_wcount", "srb_count", "gwb_copy"}

(* C5 as claimed: in the middle of every main-context access to the exchange
   buffers and counts, interrupts (the bus callbacks) are masked. *)
C5_Original == pc \in MidAccessPcs => ~intsOn

(* C5: mutual exclusion on the exchange buffers. In the middle of a
   main-context access no bus callback can run: setReadBuffer and
   getWriteBuffer have interrupts masked, and attach resets the buffers and
   counts before any callback is registered. *)
C5_MutualExclusion ==
    /\ pc \in MidAccessPcs => (~ENABLED BusWrite /\ ~ENABLED BusReadRequest)
    /\ pc \in {"srb_count", "gwb_copy"} => ~intsOn
    /\ pc \in {"att_rcount", "att_wbuf", "att_wcount"}
            => (~twi.onReceive /\ ~twi.onRequest)

(* setReadBuffer has copied the bytes and not yet set the count, with both
   callbacks registered *)
C5_Witness ==
    /\ pc = "srb_count"
    /\ twi.onReceive /\ twi.onRequest
    /\ m_rbuf # Zeros(BUFFER_SIZE)
    /\ m_rcount = 0

(* C6: first fault wins. Once the latch is non-zero no step changes it, and
   whenever no setReason call is under way the latch holds the value of the
   first setReason call that ran, from the main context or a bus callback. *)
C6_FirstFaultWins ==
    [][/\ m_reason # 0 => m_reason' = m_reason
       /\ pc' \notin {"sr_test", "sr_set"} => m_reason' = panicLog']_vars

(* the callback recorded a negative count first; hasRequest's later fault,
   which took the channel to PANIC, did not replace it *)
C6_Witness ==
    /\ m_reason = ReasonValue(SourceI2CPeriph, LineNegCount)
    /\ m_state = "PANIC"

(* the steps that end a fatal condition *)
CommFaultReturn == pc = "poll_panic" /\ pc' # pc
BusFaultStep ==
    busIn' # busIn /\ (busIn'.count < 0 \/ busIn'.count > BUFFER_SIZE)
DoubleAttachReturn == pc = "att_ret" /\ loc.call = "fault" /\ pc' # pc

(* C7 as claimed: every fatal condition latches the fault and takes the
   channel to PANIC. *)
C7_Original ==
    [][(CommFaultReturn \/ BusFaultStep \/ DoubleAttachReturn)
        => (m_reason' # 0 /\ m_state' = "PANIC")]_vars

(* C7: every fatal condition latches the fault. A declared length above
   MAX_DATA_SIZE and a short read also take the channel to PANIC; a negative
   or over-capacity bus byte count and a double attach leave the channel
   state as it is. *)
C7_FatalLatches ==
    [][/\ CommFaultReturn => (m_reason' # 0 /\ m_state' = "PANIC")
       /\ (BusFaultStep \/ DoubleAttachReturn)
            => (m_reason' # 0 /\ m_state' = m_state)]_vars

(* a negative count latched, the channel still IDLE *)
C7_Witness ==
    /\ busIn.count < 0
    /\ m_reason = ReasonValue(SourceI2CPeriph, LineNegCount)
    /\ m_state = "IDLE"
    /\ pc = "top"

(* steps of frame processing *)
PollStep == pc = "poll" /\ pc' # pc
DispatchStep == pc = "handle" /\ pc' # pc
AnswerStep == pc \in {"handle", "srb_exit", "gwb_exit"} /\ pc' = "top"

(* C8 as claimed: from the moment the latch is active no frame is polled,
   dispatched or answered. *)
C8_Original ==
    [][m_reason # 0 => ~(PollStep \/ DispatchStep \/ AnswerStep)]_vars

(* C8: fault is terminal for frame processing. An iteration of the main loop
   that starts with the latch active goes to panicLoop and polls nothing;
   panicLoop is never left, and in it the channel, the caller's msg, the
   responses and the peripheral stay as they are. (A fault latched after the
   test lets the iteration under way finish.) *)
C8_FaultTerminal ==
    [][/\ (m_reason # 0 /\ pc = "top") => pc' \in {"top", "panicLoop"}
       /\ pc = "panicLoop"
            => (pc' = "panicLoop" /\ ~intsOn'
                /\ UNCHANGED <<commVars, msg, ret, tx, m_reason, i2cVars>>)]_vars

(* in panicLoop with a whole request in the Stream that is never answered *)
C8_Witness ==
    /\ pc = "panicLoop"
    /\ m_state = "IDLE"
    /\ inflight # <<>>
    /\ rx = Head(inflight).bytes

(* C9 as claimed: after a bus write of more than BUFFER_SIZE bytes the fault
   is latched, m_wcount is BUFFER_SIZE and m_wbuf holds the first BUFFER_SIZE
   bytes the controller sent. *)
C9_Original ==
    busIn.count > BUFFER_SIZE
        => /\ m_reason # 0
           /\ m_wcount = BUFFER_SIZE
           /\ m_wbuf = Take(busIn.bytes, BUFFER_SIZE)

(* C9: write-buffer overflow. After a bus write of more than BUFFER_SIZE
   bytes the fault is latched, m_wcount is BUFFER_SIZE and m_wbuf holds what
   the BUFFER_SIZE reads after the m_subaddr_len discarded bytes returned:
   the bytes sent from position m_subaddr_len + 1 on, and 0xff where the
   bytes sent ran out. *)
C9_Overflow ==
    busIn.count > BUFFER_SIZE
        => /\ m_reason # 0
           /\ m_wcount = BUFFER_SIZE
           /\ \A i \in 1..BUFFER_SIZE :
                m_wbuf[i] = IF busIn.skip + i <= Len(busIn.bytes)
                            THEN busIn.bytes[busIn.skip + i] ELSE ByteMod - 1

(* an overflowing write with two bytes discarded: the last slot read past
   the bytes sent *)
C9_Witness ==
    /\ busIn.count = BUFFER_SIZE + 1
    /\ busIn.skip = 2
    /\ m_wcount = BUFFER_SIZE
    /\ m_wbuf[1] = busIn.bytes[3]
    /\ m_wbuf[BUFFER_SIZE] = ByteMod - 1

(* the main-context steps of an attach call made with a bus attached *)
SecondAttachStart == pc = "setup" /\ m_i2c # 0 /\ pc' \notin {"setup", "top"}
RejectedAttachStep ==
    \/ pc \in {"sr_mask", "sr_test", "sr_set"} /\ loc.caller = "attach" /\ pc' # pc
    \/ pc = "att_ret" /\ loc.call = "fault" /\ pc' # pc

(* C10: double attach. An attach call made with a bus attached only records
   a fault: the bus handle, address, speed, subaddress length, both buffers
   and counts and the bus controller are unchanged by every step of the call,
   which makes no TwoWire call, and the latch is set when it returns. *)
C10_DoubleAttach ==
    [][/\ SecondAttachStart => pc' = "sr_mask"
       /\ (SecondAttachStart \/ RejectedAttachStep)
            => /\ UNCHANGED <<cfgVars, bufVars, twi>>
               /\ busLog' = <<>>
               /\ pc' = "setup" => m_reason' # 0]_vars

(* a rejected attach about to return, the write buffer filled by an earlier
   bus write and the first attach's bus handle still in place *)
C10_Witness ==
    /\ pc = "att_ret"
    /\ loc.call = "fault"
    /\ m_i2c = 1
    /\ m_addr = default_i2c_addr
    /\ m_speed = default_i2c_speed
    /\ m_wcount = 2
    /\ twi.addr = default_i2c_addr

(***************************************************************************)
(* Properties of the command dispatch                                      *)
(***************************************************************************)
(* the request handleHostMessage is working on, as hasRequest delivered it *)
Request == Head(inflight).m

(* the commands of the table, and the I2C commands that need a bus *)
TableCmds ==
    PlainCmds \cup {I2C_SET_ADDR, I2C_SET_SPEED, I2C_SET_SUBADDR_LEN, I2C_SET_READ_BUFFER}
GatedCmds ==
    {I2C_GET_ADDR, I2C_SET_ADDR, I2C_GET_SPEED, I2C_SET_SPEED, I2C_GET_SUBADDR_LEN,
     I2C_SET_SUBADDR_LEN, I2C_SET_READ_BUFFER, I2C_GET_WRITE_BUFFER}

(* the response bytes: command, length 1, one status byte *)
Status(cmd, code) == <<cmd, 1, code>>

(* C11 as claimed: with no bus attached every gated I2C command, whatever its
   length and payload, is answered with length 1 and NOT_SUPPORTED. *)
C11_Original ==
    [][(AnswerStep /\ m_i2c = 0 /\ Request.cmd \in GatedCmds)
        => tx' = Status(Request.cmd, NOT_SUPPORTED)]_vars

(* C11: I2C gating. With no bus attached every gated I2C command is answered
   with length 1; the status is NOT_SUPPORTED, except that I2C_SET_ADDR with
   length # 1 or data[0] > 0x7f, I2C_SET_SPEED with length # 4 or value 0 and
   I2C_SET_READ_BUFFER with length 0 are answered INVALID_PARAM. (I2C_SET_SPEED
   with length 4, a non-zero value and data[0] = 0 is left open here.) *)
C11_Gating ==
    [][(AnswerStep /\ m_i2c = 0 /\ Request.cmd \in GatedCmds)
        => LET r == Request
               v == OfLE32(Take(r.data, 4))
               bad == \/ r.cmd = I2C_SET_ADDR /\ (r.len # 1 \/ r.data[1] > MaxAddr)
                      \/ r.cmd = I2C_SET_SPEED /\ (r.len # 4 \/ v = 0)
                      \/ r.cmd = I2C_SET_READ_BUFFER /\ r.len = 0
               open == r.cmd = I2C_SET_SPEED /\ r.len = 4 /\ v # 0 /\ r.data[1] = 0
           IN  /\ Len(tx') = HEADER_SIZE + 1
               /\ tx'[1] = r.cmd
               /\ tx'[2] = 1
               /\ bad => tx'[3] = INVALID_PARAM
               /\ (~bad /\ ~open) => tx'[3] = NOT_SUPPORTED]_vars

(* I2C_GET_WRITE_BUFFER answered NOT_SUPPORTED with no bus attached *)
C11_Witness ==
    /\ pc = "top"
    /\ m_i2c = 0
    /\ tx = Status(I2C_GET_WRITE_BUFFER, NOT_SUPPORTED)
    /\ msg.len = 1

(* C12: I2C_SET_ADDR validation comes before attachment. A request with
   length # 1 or data[0] > 0x7f is answered with length 1 and INVALID_PARAM,
   attached or not, and the address (m_addr, the bus controller's address
   and callbacks) is unchanged; no TwoWire call is made. *)
C12_SetAddrValidation ==
    [][(AnswerStep /\ Request.cmd = I2C_SET_ADDR
            /\ (Request.len # 1 \/ Request.data[1] > MaxAddr))
        => /\ tx' = Status(I2C_SET_ADDR, INVALID_PARAM)
           /\ UNCHANGED <<m_addr, twi>>
           /\ busLog' = <<>>]_vars

(* attached, the address set to 0x20 by an earlier request, then 0x80
   refused *)
C12_Witness ==
    /\ pc = "top"
    /\ m_i2c # 0
    /\ twi.addr = 32
    /\ tx = Status(I2C_SET_ADDR, INVALID_PARAM)

(* C13: unknown command. A command byte outside the table is answered with
   length 1 and INVALID_CMD whatever its length and payload, and the
   peripheral (configuration, buffers, counts, bus controller) is unchanged. *)
C13_UnknownCommand ==
    [][(AnswerStep /\ Request.cmd \notin TableCmds)
        => /\ tx' = Status(Request.cmd, INVALID_CMD)
           /\ msg'.len = 1
           /\ UNCHANGED <<cfgVars, bufVars, twi>>
           /\ busLog' = <<>>]_vars

(* an unknown command with a 5-byte payload answered on an attached bus *)
C13_Witness ==
    /\ pc = "top"
    /\ m_i2c # 0
    /\ tx = Status(255, INVALID_CMD)
    /\ msg.data[2] = PatByte(48, 2)

(* where the main context is while handleHostMessage runs *)
DispatchPcs ==
    {"handle", "srb_copy", "srb_count", "srb_exit", "gwb_len", "gwb_copy", "gwb_exit"}
DispatchMainStep == pc \in DispatchPcs /\ pc' # pc

(* C14: command-level errors are recoverable. No step of handleHostMessage,
   whatever the request, changes the Communicator or the fault latch; the
   channel is IDLE throughout, and once the response is written every next
   frame on the link is returned by hasRequest as sent. *)
C14_Recoverable ==
    [][DispatchMainStep
        => /\ UNCHANGED <<commVars, m_reason, panicLog>>
           /\ m_state = "IDLE"
           /\ pc' \in DispatchPcs \cup {"top"}
           /\ pc' = "top"
                => \A m \in DispReqs :
                    LET r == PollUntil(Comm, ReqBytes(m), msg', PollsPerFrame)
                    IN  r.ret /\ r.req_out = m /\ r.c.m_state = "IDLE"]_vars

(* an unknown command was answered INVALID_CMD and the next frame has been
   parsed and handed to handleHostMessage *)
C14_Witness ==
    /\ pc = "handle"
    /\ tx = Status(255, INVALID_CMD)
    /\ msg = Req(I2C_GET_SPEED, <<>>)
    /\ m_state = "IDLE"
    /\ m_reason = 0

(* C17: I2C_SET_SPEED validation. On an attached bus the request is answered
   INVALID_PARAM exactly when not (length = 4 and the little-endian value of
   data[0..3] is non-zero); otherwise the value becomes the peripheral speed
   and the answer is length 1, SUCCESS. *)
C17_SetSpeedValidation ==
    [][(AnswerStep /\ m_i2c # 0 /\ Request.cmd = I2C_SET_SPEED)
        => LET v == OfLE32(Take(Request.data, 4))
               ok == Request.len = 4 /\ v # 0
           IN  /\ tx' = Status(I2C_SET_SPEED, IF ok THEN SUCCESS ELSE INVALID_PARAM)
               /\ ok => (m_speed' = v /\ twi'.clock = v)
               /\ ~ok => UNCHANGED <<m_speed, twi>>]_vars

(* C18: read-buffer exchange. When I2C_SET_READ_BUFFER with n >= 1 bytes
   completes on an attached bus it is answered SUCCESS and the read buffer
   holds the first min(n, BUFFER_SIZE) payload bytes; no step outside
   setReadBuffer and attach changes the read buffer or its count; every bus
   read request puts exactly the m_rcount bytes of the read buffer on the
   bus; a request of length 0 is answered INVALID_PARAM and leaves the read
   buffer as it was. *)
C18_ReadBuffer ==
    [][/\ (pc = "srb_exit" /\ pc' = "top")
            => /\ tx' = Status(I2C_SET_READ_BUFFER, SUCCESS)
               /\ Request.len >= 1
               /\ m_i2c # 0
               /\ Take(m_rbuf', m_rcount') = Take(Request.data, Min(Request.len, BUFFER_SIZE))
       /\ (AnswerStep /\ Request.cmd = I2C_SET_READ_BUFFER /\ Request.len = 0)
            => /\ tx' = Status(I2C_SET_READ_BUFFER, INVALID_PARAM)
               /\ UNCHANGED <<m_rbuf, m_rcount>>
       /\ (AnswerStep /\ Request.cmd = I2C_SET_READ_BUFFER /\ Request.len >= 1
                /\ m_i2c # 0) => pc = "srb_exit"
       /\ pc \notin {"srb_copy", "srb_count", "att_rbuf", "att_rcount"}
            => UNCHANGED <<m_rbuf, m_rcount>>
       /\ busOut' # busOut => busOut' = Take(m_rbuf, m_rcount)]_vars

(* a 40-byte payload was set and answered, and a bus read request then put
   its first BUFFER_SIZE bytes on the bus *)
C18_Witness ==
    /\ pc = "top"
    /\ tx = Status(I2C_SET_READ_BUFFER, SUCCESS)
    /\ m_rcount = BUFFER_SIZE
    /\ busOut = PatSeq(48, BUFFER_SIZE)

(* C19: I2C_GET_WRITE_BUFFER on an attached bus answers with length m_wcount
   and the first m_wcount bytes of the write buffer, m_wcount being what the
   last bus write that was not refused left (0 if none); no step of the
   command changes the exchange buffers or counts. *)
C19_WriteBuffer ==
    [][/\ (pc = "gwb_exit" /\ pc' = "top")
            => /\ tx' = <<I2C_GET_WRITE_BUFFER, m_wcount>> \o Take(m_wbuf, m_wcount)
               /\ busIn.count >= 0 => m_wcount = Min(busIn.count, BUFFER_SIZE)
       /\ (AnswerStep /\ Request.cmd = I2C_GET_WRITE_BUFFER /\ m_i2c # 0)
            => pc = "gwb_exit"
       /\ (DispatchMainStep /\ Request.cmd = I2C_GET_WRITE_BUFFER)
            => UNCHANGED bufVars]_vars

(* the second of two requests is about to be handled; the first was answered
   with the two bytes a bus write left, which are still there *)
C19_Witness ==
    /\ pc = "handle"
    /\ Request.cmd = I2C_GET_WRITE_BUFFER
    /\ m_wcount = 2
    /\ busIn.count = 2
    /\ tx = <<I2C_GET_WRITE_BUFFER, 2>> \o Take(m_wbuf, 2)

(* the length handleHostMessage has put in msg.len when it calls
   sendResponse *)
ResponseLen ==
    CASE pc = "handle" -> handleHostMessage(msg, Periph, m_caps).msg.len
      [] pc = "srb_exit" -> 1
      [] pc = "gwb_exit" -> loc.ret
      [] OTHER -> 0

(* C20: the dispatcher answers within the bound. handleHostMessage writes one
   response per request, with the request's command byte and a length of at
   most MAX_DATA_SIZE, which sendResponse sends unclamped; nothing else
   writes to the link. *)
C20_AnswersWithinBound ==
    [][/\ AnswerStep
            => /\ inflight # <<>> /\ inflight' = <<>>
               /\ ResponseLen <= MAX_DATA_SIZE
               /\ Len(tx') = HEADER_SIZE + ResponseLen
               /\ tx'[1] = Request.cmd
               /\ tx'[2] = ResponseLen
               /\ msg'.len = ResponseLen
       /\ ~AnswerStep => tx' = tx
       /\ DispatchMainStep => pc' \in DispatchPcs \cup {"top"}]_vars

(* the longest response: a full write buffer *)
C20_Witness ==
    /\ pc = "top"
    /\ Len(tx) = HEADER_SIZE + BUFFER_SIZE
    /\ tx[1] = I2C_GET_WRITE_BUFFER
    /\ tx[2] = BUFFER_SIZE
    /\ msg.len = BUFFER_SIZE

(***************************************************************************)
(* Properties of the Communicator: the caller's object, the bytes written  *)
(***************************************************************************)
(* C15: a failed poll does not touch the caller's frame. In every reachable
   state, a hasRequest call that returns false (IDLE, READ_REQUEST_HEADER,
   READ_REQUEST_DATA with part of the body, PANIC, or on its way to PANIC)
   leaves the caller's object as it is; a call that returns true is made in
   RETURN_REQUEST, when m_req holds all 2 + len bytes of the oldest frame on
   the link. *)
C15_FailedPollKeepsFrame ==
    \A short \in Shortfalls :
        LET r == hasRequest(Comm, rx, msg, m_reason, short)
        IN  /\ ~r.ret => r.req_out = msg
            /\ r.ret => /\ m_state = "RETURN_REQUEST"
                        /\ m_data_rcvd = m_req.len
                        /\ inflight # <<>>
                        /\ Take(MsgBytes(m_req), HEADER_SIZE + m_req.len)
                                = Head(inflight).bytes

(* part of a 64-byte body has been read by calls that returned false, and the
   caller's object still is the response it sent, not the frame arriving *)
C15_Witness ==
    /\ m_state = "READ_REQUEST_DATA"
    /\ m_data_rcvd > 0
    /\ m_data_rcvd < m_req.len
    /\ m_req.len = 3
    /\ ~ret
    /\ msg.len = MAX_DATA_SIZE
    /\ msg.data[1] # 0

RECURSIVE Flat(_)
Flat(pieces) == IF pieces = <<>> THEN <<>> ELSE Head(pieces) \o Flat(Tail(pieces))

(* this step is a sendResponse call *)
SendStep ==
    /\ Len(inflight') = Len(inflight) + 1
    /\ inflight'[Len(inflight')].sent

(* C16: send clamps. sendResponse given a len above MAX_DATA_SIZE sets it to
   MAX_DATA_SIZE; it writes exactly 2 + len bytes for the len it ends with:
   cmd, len and the first len data bytes; a len of at most MAX_DATA_SIZE, cmd
   and data are left as they were. *)
C16_SendClamps ==
    [][SendStep
        => LET e == inflight'[Len(inflight')]
               n == IF e.m.len > MAX_DATA_SIZE THEN MAX_DATA_SIZE ELSE e.m.len
           IN  /\ Flat(SubSeq(wire', Len(wire) + 1, Len(wire')))
                    = <<e.m.cmd, n>> \o Take(e.m.data, n)
               /\ msg' = [e.m EXCEPT !.len = n]]_vars

(* a response given with len 65 went out as 66 bytes with len 64 *)
C16_Witness ==
    /\ inflight # <<>>
    /\ inflight[Len(inflight)].sent
    /\ inflight[Len(inflight)].m.len = MAX_DATA_SIZE + 1
    /\ Len(inflight[Len(inflight)].bytes) = HEADER_SIZE + MAX_DATA_SIZE
    /\ inflight[Len(inflight)].bytes[2] = MAX_DATA_SIZE
    /\ msg.len = MAX_DATA_SIZE

(***************************************************************************)
(* Properties of the peripheral: address, capture, attach                  *)
(***************************************************************************)
(* C21: address set/get round trip. On an attached bus a valid I2C_SET_ADDR
   a is answered SUCCESS and makes a the peripheral's address, and
   I2C_GET_ADDR answers with the address the bus controller listens on: the
   one given to attach or to the last successful I2C_SET_ADDR. *)
C21_AddrRoundTrip ==
    [][/\ (AnswerStep /\ m_i2c # 0 /\ Request.cmd = I2C_SET_ADDR
                /\ Request.len = 1 /\ Request.data[1] <= MaxAddr)
            => /\ tx' = Status(I2C_SET_ADDR, SUCCESS)
               /\ twi'.addr = Request.data[1]
       /\ (AnswerStep /\ m_i2c # 0 /\ Request.cmd = I2C_GET_ADDR)
            => tx' = <<I2C_GET_ADDR, 1, twi.addr>>]_vars

(* C22: subaddress skip on capture. After a bus write of n bytes, 0 <= n <=
   BUFFER_SIZE, with m_subaddr_len = k, the k leading bytes are not stored,
   m_wcount is the number of bytes that follow them, the write buffer holds
   exactly those bytes, and no more bytes were read than were sent. *)
C22_SkipOnCapture ==
    (busIn # NoBusWrite /\ busIn.count >= 0 /\ busIn.count <= BUFFER_SIZE)
        => /\ m_wcount = Max(busIn.count - busIn.skip, 0)
           /\ Take(m_wbuf, m_wcount) = Drop(busIn.bytes, busIn.skip)
           /\ busIn.reads <= Len(busIn.bytes)

(* C23: attach ordering. While a successful attach resets the buffers and
   counts, nothing has been applied to the bus controller and no callback is
   registered; the address is applied (begin, then both callbacks) only once
   both buffers and both counts are zero; the speed is applied after that;
   and no setClock ever precedes the first begin. *)
AddressApplied(addr) == <<<<"begin", addr>>, <<"onReceive">>, <<"onRequest">>>>
C23_AttachOrdering ==
    /\ pc \in {"att_rbuf", "att_rcount", "att_wbuf", "att_wcount", "att_addr"}
         => busLog = <<>> /\ twi = NoTwoWire
    /\ pc = "att_addr"
         => /\ m_rbuf = Zeros(BUFFER_SIZE) /\ m_rcount = 0
            /\ m_wbuf = Zeros(BUFFER_SIZE) /\ m_wcount = 0
    /\ pc = "att_speed"
         => /\ busLog = AddressApplied(loc.addr)
            /\ twi = [addr |-> loc.addr, clock |-> 0, onReceive |-> TRUE,
                      onRequest |-> TRUE]
    /\ (pc = "att_ret" /\ loc.call = "attach")
         => /\ busLog = Append(AddressApplied(loc.addr), <<"setClock", loc.speed>>)
            /\ twi.clock = loc.speed
    /\ twi.clock # 0 => twi.addr # -1

C23_Witness ==
    /\ pc = "att_ret" /\ loc.call = "attach"
    /\ Len(busLog) = 4 /\ busLog[4] = <<"setClock", default_i2c_speed>>
    /\ m_wcount = 0 /\ m_rcount = 0

(***************************************************************************)
(* Properties of the Communicator: short reads, frame boundaries, progress *)
(***************************************************************************)
(* what the next readBytes is asked for: the header size in
   READ_REQUEST_HEADER, the smaller of available and remaining in
   READ_REQUEST_DATA with bytes available, nothing otherwise *)
Requested ==
    IF m_state = "READ_REQUEST_HEADER" THEN HEADER_SIZE
    ELSE IF m_state = "READ_REQUEST_DATA" /\ Len(rx) > 0
         THEN Min(Len(rx), m_req.len - m_data_rcvd)
         ELSE 0

(* C24: a read-size mismatch is fatal. In READ_REQUEST_HEADER or
   READ_REQUEST_DATA a readBytes that transfers another number of bytes than
   requested latches a fault of source Communicator (unless one is latched),
   moves to PANIC, returns false and leaves the caller's object alone; and in
   PANIC no call returns a frame or leaves PANIC. *)
C24_ShortReadFatal ==
    \A short \in Shortfalls :
        LET r == hasRequest(Comm, rx, msg, m_reason, short)
            line == IF m_state = "READ_REQUEST_HEADER" THEN LineHeaderShort
                    ELSE LineDataShort
        IN  /\ (Requested > 0 /\ readCount(rx, Requested, short) # Requested)
                => /\ r.c.m_state = "PANIC"
                   /\ ~r.ret
                   /\ r.req_out = msg
                   /\ r.reason = IF m_reason = 0
                                 THEN ReasonValue(SourceCommunicator, line)
                                 ELSE m_reason
            /\ m_state = "PANIC"
                => /\ r.c.m_state = "PANIC" /\ ~r.ret /\ r.req_out = msg
                   /\ m_reason # 0

(* a body read fell short: the fault is latched with the line of the body
   test, the frame is still owed and what was received of it stays in m_req *)
C24_Witness ==
    /\ m_state = "PANIC"
    /\ m_reason = ReasonValue(SourceCommunicator, LineDataShort)
    /\ m_data_rcvd < m_req.len
    /\ inflight # <<>>
    /\ ~ret

(***************************************************************************)
(* Properties of the bus callbacks                                         *)
(***************************************************************************)
(* C25: negative byte count. A _handle_write with a negative count latches
   a fault of source I2CPeriph (unless a fault is latched already), makes no
   read() call on the bus, not even for the subaddress bytes, and changes
   neither the write buffer nor m_wcount. *)
C25_NegativeCount ==
    [][(busIn' # busIn /\ busIn'.count < 0)
          => /\ m_reason' = IF m_reason = 0
                            THEN ReasonValue(SourceI2CPeriph, LineNegCount)
                            ELSE m_reason
             /\ busIn'.reads = 0
             /\ UNCHANGED <<m_wbuf, m_wcount>>]_vars

(* a negative count arrived after a capture: the fault is latched and the
   captured bytes and their count are still there *)
C25_Witness ==
    /\ busIn.count < 0
    /\ busIn.reads = 0
    /\ m_reason = ReasonValue(SourceI2CPeriph, LineNegCount)
    /\ m_wcount = 2
    /\ m_wbuf[1] # 0

(* C26: callbacks stay non-re-entrant when they fault. A Panic::setReason
   called from inside _handle_write (negative or over-capacity count) returns
   with the interrupt enable as it was when the callback was entered. *)
C26_MaskRestored ==
    busIn.mask # <<>> => busIn.mask[2] = busIn.mask[1]

(* the bytes of the frames in flight, in the order they were written *)
RECURSIVE Owed(_)
Owed(frames) == IF frames = <<>> THEN <<>> ELSE Head(frames).bytes \o Owed(Tail(frames))

(* how many bytes of the frame at the head the parser has taken off the link *)
Consumed ==
    CASE m_state = "READ_REQUEST_DATA" -> HEADER_SIZE + m_data_rcvd
      [] m_state = "RETURN_REQUEST" -> HEADER_SIZE + m_req.len
      [] OTHER -> 0

(* C27: frame boundaries across frames. As long as no fault has stopped the
   parser, what is left on the link is the stream written minus exactly the
   bytes taken for the frame at the head; those bytes are in m_req and none
   of a following frame; and a frame ready to be returned has taken exactly
   HEADER_SIZE + len bytes, all of them its own. *)
C27_FrameBoundaries ==
    m_state # "PANIC"
        => /\ Consumed <= Len(Owed(inflight))
           /\ rx \o Flat(wire) = Drop(Owed(inflight), Consumed)
           /\ Consumed > 0
                => /\ Consumed <= Len(Head(inflight).bytes)
                   /\ Take(MsgBytes(m_req), Consumed)
                        = Take(Head(inflight).bytes, Consumed)
           /\ m_state = "RETURN_REQUEST"
                => Consumed = Len(Head(inflight).bytes)

(* part of a 64-byte body has been read and the link already holds more than
   the rest of it: bytes of the following frame are available to the next
   body read *)
C27_Witness ==
    /\ m_state = "READ_REQUEST_DATA"
    /\ m_req.len = MAX_DATA_SIZE
    /\ m_data_rcvd > 0
    /\ Len(inflight) = 2
    /\ Len(rx) > m_req.len - m_data_rcvd

(* the state changes one hasRequest call can make *)
Transitions ==
    {<<"UNINITIALIZED", "IDLE">>, <<"UNINITIALIZED", "PANIC">>,
     <<"IDLE", "READ_REQUEST_HEADER">>,
     <<"READ_REQUEST_HEADER", "READ_REQUEST_DATA">>,
     <<"READ_REQUEST_HEADER", "RETURN_REQUEST">>,
     <<"READ_REQUEST_HEADER", "PANIC">>,
     <<"READ_REQUEST_DATA", "RETURN_REQUEST">>,
     <<"READ_REQUEST_DATA", "PANIC">>,
     <<"RETURN_REQUEST", "IDLE">>}

(* a valid frame is owed to an attached parser that has not faulted, and the
   last call did not return one *)
FrameOwed ==
    /\ m_state \notin {"UNINITIALIZED", "PANIC"}
    /\ inflight # <<>>
    /\ Head(inflight).bytes[2] <= MAX_DATA_SIZE
    /\ ~ret

(* C28: progress of the parser. On a link that never reads short and on
   which every byte written arrives, a valid frame owed to an attached,
   unfaulted parser is eventually returned by the repeated hasRequest calls;
   each call changes the state by at most one transition of the machine; and
   when all bytes of the frame are available in IDLE, 4 calls return it. *)
C28_Progress ==
    /\ FrameOwed ~> ret
    /\ [][m_state' # m_state => <<m_state, m_state'>> \in Transitions]_vars
    /\ [](( /\ m_state = "IDLE"
            /\ inflight # <<>>
            /\ Head(inflight).bytes[2] <= MAX_DATA_SIZE
            /\ Len(rx) >= Len(Head(inflight).bytes))
          => LET r == PollUntil(Comm, rx, msg, 4)
             IN  /\ r.ret
                 /\ r.c.m_state = "IDLE"
                 /\ Take(MsgBytes(r.req_out), Len(Head(inflight).bytes))
                        = Head(inflight).bytes)

(* a frame with a 64-byte body, which arrives in pieces, has been returned
   and nothing is owed any more *)
C28_Witness ==
    /\ ret
    /\ m_state = "IDLE"
    /\ m_reason = 0
    /\ msg.len = MAX_DATA_SIZE
    /\ msg.data = PatSeq(16, MAX_DATA_SIZE)
    /\ inflight = <<>>
    /\ rx = <<>> /\ wire = <<>>

(***************************************************************************)
(* Buffer bounds                                                           *)
(***************************************************************************)
(* C29: buffer-bound invariant. In every reachable state m_wcount and
   m_rcount are at most BUFFER_SIZE, and in READ_REQUEST_DATA m_data_rcvd is
   strictly less than m_req.len, which is at most MAX_DATA_SIZE. *)
C29_BufferBounds ==
    /\ m_wcount >= 0 /\ m_wcount <= BUFFER_SIZE
    /\ m_rcount >= 0 /\ m_rcount <= BUFFER_SIZE
    /\ m_state = "READ_REQUEST_DATA"
         => /\ m_data_rcvd >= 0
            /\ m_data_rcvd < m_req.len
            /\ m_req.len <= MAX_DATA_SIZE

(* an over-capacity bus write has filled the write buffer, a 40-byte
   SET_READ_BUFFER payload has filled the read buffer, and the body of a
   further 40-byte request is partly received *)
C29_Witness ==
    /\ m_wcount = BUFFER_SIZE
    /\ m_rcount = BUFFER_SIZE
    /\ busIn.count > BUFFER_SIZE
    /\ m_state = "READ_REQUEST_DATA"
    /\ m_data_rcvd > 0
    /\ m_req.len > BUFFER_SIZE

====
